---- MODULE Spec2Model ----
(***************************************************************************)
(* Model of Email.py: the Email address object (parser, tld setter), the   *)
(* haveibeenpwned client Email.pwned, and the crawl loop of                *)
(* Domain.__init__.                                                        *)
(*                                                                         *)
(* Python strings are modelled as sequences of one-character strings, so   *)
(* that split, lower, startswith, urlparse and urljoin are computed and    *)
(* not assumed.  Durations are in tenths of a second (1.7 s = 17).         *)
(***************************************************************************)
EXTENDS Integers, Sequences, FiniteSets, TLC

\* ------------------------------------------------------------------------
\* String helpers (Python str / re semantics on literal separators)
\* ------------------------------------------------------------------------

Range(s) == {s[i] : i \in 1..Len(s)}

Min(S) == CHOOSE x \in S : \A y \in S : x <= y

Last(s) == s[Len(s)]

Front(s) == SubSeq(s, 1, Len(s) - 1)

\* least index >= from at which sub occurs in s, 0 when there is none
FindFrom(s, sub, from) ==
    LET cand == {i \in from..(Len(s) - Len(sub) + 1) :
                    SubSeq(s, i, i + Len(sub) - 1) = sub}
    IN  IF cand = {} THEN 0 ELSE Min(cand)

\* Python: sub in s
Contains(s, sub) == FindFrom(s, sub, 1) # 0

\* Python: s.startswith(p)
StartsWith(s, p) == Len(p) <= Len(s) /\ SubSeq(s, 1, Len(p)) = p

\* Python: s.split(sep), re.split(sep, s) for a literal separator
RECURSIVE Split(_, _)
Split(s, sep) ==
    LET i == FindFrom(s, sep, 1)
    IN  IF i = 0 THEN <<s>>
        ELSE <<SubSeq(s, 1, i - 1)>> \o Split(SubSeq(s, i + Len(sep), Len(s)), sep)

\* Python: sep.join(parts)
RECURSIVE Join(_, _)
Join(parts, sep) ==
    IF parts = <<>> THEN <<>>
    ELSE IF Len(parts) = 1 THEN parts[1]
    ELSE parts[1] \o sep \o Join(Tail(parts), sep)

UpperChars == <<"A", "B", "C", "D", "E", "F", "G", "H", "I", "J", "K", "L", "M",
                "N", "O", "P", "Q", "R", "S", "T", "U", "V", "W", "X", "Y", "Z">>

LowerChars == <<"a", "b", "c", "d", "e", "f", "g", "h", "i", "j", "k", "l", "m",
                "n", "o", "p", "q", "r", "s", "t", "u", "v", "w", "x", "y", "z">>

Digits == {"0", "1", "2", "3", "4", "5", "6", "7", "8", "9"}

LowerChar(c) ==
    IF \E i \in 1..26 : UpperChars[i] = c
    THEN LowerChars[CHOOSE i \in 1..26 : UpperChars[i] = c]
    ELSE c

\* Python: s.lower()
Lower(s) == [i \in 1..Len(s) |-> LowerChar(s[i])]

IsAlpha(c) == c \in Range(UpperChars) \cup Range(LowerChars)

\* Python: s.isnumeric() (false on the empty string)
IsNumeric(s) == Len(s) > 0 /\ \A i \in 1..Len(s) : s[i] \in Digits

\* text before the first occurrence of the character c: re.split(c, s)[0]
CutAt(s, c) == Split(s, <<c>>)[1]

SLASH == <<"/">>
SEP == <<"/", "/">>
DOT == <<".">>
DOTDOT == <<".", ".">>
COLON == <<":">>

\* ------------------------------------------------------------------------
\* urllib.parse as used by Domain.__init__
\* ------------------------------------------------------------------------

SchemeChars == Range(UpperChars) \cup Range(LowerChars) \cup Digits \cup {"+", "-", "."}

\* urlparse(url): scheme, netloc and path; error is the ValueError
\* ("Invalid IPv6 URL") raised for an unbalanced bracket in the netloc
\* without a netloc there is no bracket to balance
UrlResult(scheme, netloc, rest2) ==
    [scheme |-> scheme, netloc |-> netloc,
     path |-> CutAt(CutAt(rest2, "#"), "?"),
     error |-> ("[" \in Range(netloc)) # ("]" \in Range(netloc))]

\* the text after the scheme: a netloc after '//' up to the first of "/?#"
SplitNetloc(scheme, rest) ==
    LET delims == {k \in 3..Len(rest) : rest[k] \in {"/", "?", "#"}}
        d == IF delims = {} THEN Len(rest) + 1 ELSE Min(delims)
    IN  IF StartsWith(rest, SEP)
        THEN UrlResult(scheme, SubSeq(rest, 3, d - 1), SubSeq(rest, d, Len(rest)))
        ELSE UrlResult(scheme, <<>>, rest)

\* i is the place of the first ':' of url, 0 when it has none
SplitScheme(url, i) ==
    IF i > 1 /\ IsAlpha(url[1]) /\ \A k \in 1..(i - 1) : url[k] \in SchemeChars
    THEN SplitNetloc(Lower(SubSeq(url, 1, i - 1)), SubSeq(url, i + 1, Len(url)))
    ELSE SplitNetloc(<<>>, url)

UrlParse(url) == SplitScheme(url, FindFrom(url, COLON, 1))

\* urlunparse((scheme, netloc, path, '', '', '')) for an http(s) scheme
UrlUnparse(scheme, netloc, path) ==
    LET p == IF path # <<>> /\ path[1] # "/" THEN SLASH \o path ELSE path
    IN  scheme \o COLON \o SEP \o netloc \o p

\* segments[1:-1] = filter(None, segments[1:-1])
FilterMiddle(segs) ==
    IF Len(segs) < 3 THEN segs
    ELSE <<segs[1]>> \o SelectSeq(SubSeq(segs, 2, Len(segs) - 1), LAMBDA x : x # <<>>)
         \o <<Last(segs)>>

\* the dot-segment loop of urljoin
RECURSIVE ResolveSegments(_, _)
ResolveSegments(segs, acc) ==
    IF segs = <<>> THEN acc
    ELSE IF Head(segs) = DOTDOT
         THEN ResolveSegments(Tail(segs), IF acc = <<>> THEN acc ELSE Front(acc))
    ELSE IF Head(segs) = DOT THEN ResolveSegments(Tail(segs), acc)
    ELSE ResolveSegments(Tail(segs), Append(acc, Head(segs)))

\* base_parts = bpath.split('/'), without its last part unless that is empty
BaseParts(bp0) == IF Last(bp0) # <<>> THEN Front(bp0) ELSE bp0

\* the segments of the joined path before dot-segments are resolved
Segments(bpath, path) ==
    IF path[1] = "/" THEN Split(path, SLASH)
    ELSE FilterMiddle(BaseParts(Split(bpath, SLASH)) \o Split(path, SLASH))

\* '/'.join(resolved_path) or '/', with the slash a closing dot-segment leaves
JoinResolved(segments, resolved) ==
    LET joined == Join(IF Last(segments) \in {DOT, DOTDOT}
                       THEN Append(resolved, <<>>) ELSE resolved, SLASH)
    IN  IF joined = <<>> THEN SLASH ELSE joined

ResolveFrom(segments) == JoinResolved(segments, ResolveSegments(segments, <<>>))

ResolvePath(bpath, path) == ResolveFrom(Segments(bpath, path))

\* urljoin on the parsed base b and the parsed url u
JoinParsed(b, u, url) ==
    LET scheme == IF u.scheme = <<>> THEN b.scheme ELSE u.scheme
    IN  IF u.error THEN [url |-> <<>>, error |-> TRUE]
        ELSE IF scheme # b.scheme THEN [url |-> url, error |-> FALSE]
        ELSE IF u.netloc # <<>>
             THEN [url |-> UrlUnparse(scheme, u.netloc, u.path), error |-> FALSE]
        ELSE IF u.path = <<>>
             THEN [url |-> UrlUnparse(scheme, b.netloc, b.path), error |-> FALSE]
        ELSE [url |-> UrlUnparse(scheme, b.netloc, ResolvePath(b.path, u.path)),
              error |-> FALSE]

\* urljoin(base, url) for an http(s) base and a url without query or fragment
\* (the crawl passes a path returned by urlparse); error as in UrlParse
UrlJoin(base, url) ==
    IF url = <<>> THEN [url |-> base, error |-> FALSE]
    ELSE JoinParsed(UrlParse(base), UrlParse(url), url)

\* ------------------------------------------------------------------------
\* Bounds of the search
\* ------------------------------------------------------------------------

\* most labels in the domain part of a raw address
MaxLabels == 3

\* most calls of Email.pwned on one address
MaxCalls == 2

\* most words of a text given to Email.findall
MaxWords == 3

\* most anchors BeautifulSoup returns for one page
MaxLinks == 2

\* anchors of a page of the site with many pages
BudgetFanout == 21

\* how many of the pending links pop may choose from on that site
PopWidth == 2

\* ------------------------------------------------------------------------
\* class Email
\* ------------------------------------------------------------------------

\* Python None and False; no string, since every string is a sequence of
\* one-character strings
None == <<"None">>
False == <<"False">>

AT == <<"@">>

email_tlds == {<<"b", "a", "n", "k">>, <<"c", "o", "m">>, <<"o", "r", "g">>,
               <<"n", "e", "t">>, <<"i", "n", "t">>, <<"e", "d", "u">>,
               <<"g", "o", "v">>, <<"m", "i", "l">>}

skip_types == {<<"d", "o", "c">>, <<"d", "o", "c", "x">>, <<"x", "l", "s">>,
               <<"x", "l", "s", "x">>, <<"p", "d", "f">>, <<"p", "n", "g">>,
               <<"j", "p", "g">>, <<"j", "p", "e", "g">>, <<"z", "i", "p">>,
               <<"m", "p", "3">>, <<"m", "p", "4">>, <<"e", "x", "e">>}

\* truth value of a Python str-or-None
Truthy(v) == v # None /\ v # False /\ v # <<>>

\* startswith_tld returning the whole label that starts with a tld
startswith_tld_whole_label(test_str) ==
    LET hits == {tld \in email_tlds : StartsWith(Lower(test_str), tld)}
    IN  IF hits = {} THEN False ELSE Lower(test_str)

\* Email.startswith_tld: no tld is a prefix of another, so the iteration
\* order of the set does not matter
startswith_tld(test_str) ==
    LET hits == {tld \in email_tlds : StartsWith(Lower(test_str), tld)}
    IN  IF hits = {} THEN False ELSE CHOOSE tld \in hits : TRUE

\* the tld setter: raises TypeError, or stores the value as given
tld_setter_raises(value) == Truthy(value) /\ Lower(value) \notin email_tlds

tld_setter_stores(value) == value

\* the object a raising constructor leaves behind: nothing but the exception
Email_failed(email_addr, exc) ==
    [exc |-> exc, email_addr |-> email_addr, name |-> None,
     domain |-> None, tld |-> None, country |-> None]

\* lines 53 to 57: the tld goes through the setter, the labels left are joined
Email_tld(email_addr, name, domain_list, check_tld, country) ==
    IF Truthy(check_tld) /\ tld_setter_raises(check_tld)
    THEN Email_failed(email_addr, "TypeError")
    ELSE [exc |-> "none", email_addr |-> email_addr, name |-> name,
          domain |-> Join(IF Truthy(check_tld) THEN Front(domain_list)
                          ELSE domain_list, DOT),
          tld |-> IF Truthy(check_tld) THEN tld_setter_stores(check_tld)
                  ELSE tld_setter_stores(None),
          country |-> country]

\* lines 51 to 52: the last label left is tested for a tld
Email_labels(email_addr, name, domain_list, numeric, country) ==
    Email_tld(email_addr, name, domain_list,
              IF ~numeric /\ Len(domain_list) > 1
              THEN startswith_tld(Last(domain_list)) ELSE False,
              country)

\* lines 44 to 48: a last label of two characters is the country
Email_country(email_addr, name, domain_list, numeric) ==
    IF ~numeric /\ Len(domain_list) > 1 /\ Len(Last(domain_list)) = 2
    THEN Email_labels(email_addr, name, Front(domain_list), numeric,
                      Lower(Last(domain_list)))
    ELSE Email_labels(email_addr, name, domain_list, numeric, None)

\* lines 41 to 44: the last label must be no 'x' and no file type
Email_domain(email_addr, name, domain_list) ==
    IF Last(domain_list) = <<"x">> \/ Last(domain_list) \in skip_types
    THEN Email_failed(email_addr, "TypeError")
    ELSE Email_country(email_addr, name, domain_list,
                       \A i \in 1..Len(domain_list) : IsNumeric(domain_list[i]))

\* line 35: the unpacking raises ValueError unless there are two parts
Email_split(email_addr, parts) ==
    IF Len(parts) # 2 THEN Email_failed(email_addr, "ValueError")
    ELSE Email_domain(email_addr, parts[1], Split(parts[2], DOT))

\* Email.__init__: the fields of the new object, or the exception raised
Email_init(email_addr) == Email_split(email_addr, Split(email_addr, AT))

\* __str__ with the country put before the tld
Email_str_country_first(e) ==
    e.name \o AT \o
    Join(<<e.domain>> \o (IF Truthy(e.country) THEN <<e.country>> ELSE <<>>)
                      \o (IF Truthy(e.tld) THEN <<e.tld>> ELSE <<>>), DOT)

\* Email.__str__
Email_str(e) ==
    e.name \o AT \o
    Join(<<e.domain>> \o (IF Truthy(e.tld) THEN <<e.tld>> ELSE <<>>)
                      \o (IF Truthy(e.country) THEN <<e.country>> ELSE <<>>), DOT)

\* ------------------------------------------------------------------------
\* Email.email_pat and re.findall
\* ------------------------------------------------------------------------

\* [a-zA-Z0-9_\-] and [a-zA-Z0-9_\-\.]
TldChars == Range(UpperChars) \cup Range(LowerChars) \cup Digits \cup {"_", "-"}

AddrChars == TldChars \cup {"."}

\* last index of the longest run of characters of cs that starts at i
\* (i - 1 when there is none): a greedy cs+
RunEnd(s, i, cs) ==
    LET stops == {k \in i..Len(s) : s[k] \notin cs}
    IN  IF stops = {} THEN Len(s) ELSE Min(stops) - 1

\* [..]+\.[..]+ after the '@' at j: the greedy first part gives back
\* characters up to the last '.' that a character of TldChars follows
DomainEnd(s, j, k) ==
    LET ds == {d \in (j + 2)..(k - 1) : s[d] = "." /\ s[d + 1] # "."}
    IN  IF ds = {} THEN 0
        ELSE RunEnd(s, (CHOOSE d \in ds : \A e \in ds : e <= d) + 1, TldChars)

\* the '@' must follow the longest run of AddrChars that starts at i
AtSign(s, i, j) ==
    IF j = i \/ j > Len(s) THEN 0
    ELSE IF s[j] # "@" THEN 0
    ELSE DomainEnd(s, j, RunEnd(s, j + 1, AddrChars))

\* Email.email_pat matched at index i of s: index of the last character of
\* the match, 0 when there is no match at i
MatchEnd(s, i) == AtSign(s, i, RunEnd(s, i, AddrChars) + 1)

\* re.findall(Email.email_pat, s) from index pos on: the matches, left to
\* right, none overlapping another
RECURSIVE FindAll(_, _)
FindAll(s, pos) ==
    LET starts == {i \in pos..Len(s) : MatchEnd(s, i) # 0}
    IN  IF starts = {} THEN <<>>
        ELSE <<SubSeq(s, Min(starts), MatchEnd(s, Min(starts)))>>
             \o FindAll(s, MatchEnd(s, Min(starts)) + 1)

VARIABLES
    \* --- one Email object ---
    email,          \* its fields, or the exception its constructor raised
    tld_exc,        \* exception raised by the last direct assignment to tld
    \* --- Email.pwned on that object ---
    ppc,            \* position in the call
    max_attempts,   \* local max_attempts
    pwned_sleep,    \* self.pwned_sleep, tenths of a second
    last_error,     \* self.last_error
    pwned_status,   \* self.pwned_status
    return_value,   \* local return_value
    pwned_exc,      \* exception that ended the call, with the error it reports
    calls,          \* calls started so far
    requests,       \* requests.get calls made by the current call
    slept,          \* time.sleep durations of the current call, in order
    last_resp,      \* response of the latest attempt of the current call
    call_errors,    \* transport errors of the current call, in order
    retry_after,    \* duration of the latest rate-limited response carrying one
    \* --- Domain.__init__ ---
    pc,             \* position in the constructor
    link,           \* argument link, then self.link
    cleanaddress,   \* self.cleanaddress
    host,           \* self.host
    error_count,    \* self.error_count
    to_do_list,     \* local to_do_list
    visited,        \* local visited
    emails,         \* self.emails
    link_to_do,     \* local link_to_do
    link_ref,       \* local link_ref (href of the anchor being processed)
    n_links,        \* anchors of the current page processed so far
    links_visited,  \* self.links_visited
    crawl_exc,      \* exception that left the constructor
    \* --- Email.findall ---
    fpc,            \* position in the call
    find_text,      \* argument text
    matches,        \* list returned by re.findall
    found,          \* items of the set found not yet iterated
    results         \* local results

email_vars == <<email, tld_exc>>

pwned_vars == <<ppc, max_attempts, pwned_sleep, last_error, pwned_status,
                return_value, pwned_exc, calls, requests, slept, last_resp,
                call_errors, retry_after>>

pwned_rest == <<ppc, max_attempts, last_error, pwned_status, return_value,
                pwned_exc, calls, requests, slept, last_resp, call_errors,
                retry_after>>

crawl_vars == <<pc, link, cleanaddress, host, error_count, to_do_list, visited,
                emails, link_to_do, link_ref, n_links, links_visited, crawl_exc>>

find_vars == <<fpc, find_text, matches, found, results>>

vars == <<email_vars, pwned_vars, crawl_vars, find_vars>>

\* ------------------------------------------------------------------------
\* The Email object: construction and direct assignments to tld
\* ------------------------------------------------------------------------

Unborn == [exc |-> "unborn", email_addr |-> None, name |-> None,
           domain |-> None, tld |-> None, country |-> None]

\* labels the raw addresses are built from
Labels == {<<"e", "x">>, <<"c", "o", "m">>, <<"G", "O", "V", "x">>, <<"u", "k">>,
           <<"1", "2">>, <<"p", "d", "f">>, <<"x">>}

RECURSIVE LabelSeqs(_)
LabelSeqs(n) ==
    IF n = 0 THEN {<<>>}
    ELSE {<<>>} \cup {<<l>> \o s : l \in Labels, s \in LabelSeqs(n - 1)}

\* 'user@sub.example.gov.uk'
ExampleAddr == <<"u", "s", "e", "r", "@", "s", "u", "b", ".", "e", "x", "a", "m", "p",
                 "l", "e", ".", "g", "o", "v", ".", "u", "k">>

\* raw strings handed to the constructor: one '@', none, or two
RawAddrs ==
    {p \o Join(ls, DOT) :
        p \in {<<"u", "@">>, <<"u">>, <<"u", "@", "v", "@">>},
        ls \in LabelSeqs(MaxLabels) \ {<<>>}} \cup {ExampleAddr}

\* values assigned to tld
TldValues == {None, <<>>, <<"c", "o", "m">>, <<"C", "O", "M">>, <<"G", "o", "v">>,
              <<"x", "y", "z">>, <<"b", "a", "n", "k">>}

\* self.pwned_sleep = 1.7
pwned_sleep_init == 17

\* e = Email(raw)
Construct(raw) ==
    /\ email.exc = "unborn"
    /\ email' = Email_init(raw)
    /\ pwned_sleep' = IF email'.exc = "none" THEN pwned_sleep_init ELSE pwned_sleep
    /\ UNCHANGED tld_exc
    /\ UNCHANGED <<pwned_rest, crawl_vars, find_vars>>

\* e.tld = value
AssignTld(value) ==
    /\ email.exc = "none"
    /\ IF tld_setter_raises(value)
       THEN /\ tld_exc' = "TypeError"
            /\ UNCHANGED email
       ELSE /\ tld_exc' = "none"
            /\ email' = [email EXCEPT !.tld = tld_setter_stores(value)]
    /\ UNCHANGED pwned_sleep
    /\ UNCHANGED <<pwned_rest, crawl_vars, find_vars>>

EmailNext ==
    \/ \E raw \in RawAddrs : Construct(raw)
    \/ \E value \in TldValues : AssignTld(value)

\* ------------------------------------------------------------------------
\* Email.findall
\* ------------------------------------------------------------------------

\* words of a text: addresses the constructor accepts, addresses it rejects
\* ('.pdf', '.x') and a word without '@'
Words == {<<"u", "@", "e", "x", ".", "c", "o", "m">>,
          <<"v", "@", "e", "x", ".", "G", "O", "V", "x", ".", "u", "k">>,
          <<"u", "@", "e", "x", ".", "p", "d", "f">>,
          <<"u", "@", "m", "d", ".", "x">>,
          <<"n", "o", "a", "t">>}

RECURSIVE WordSeqs(_)
WordSeqs(n) ==
    IF n = 0 THEN {<<>>}
    ELSE {<<>>} \cup {<<w>> \o ws : w \in Words, ws \in WordSeqs(n - 1)}

\* texts handed to findall: words with a blank, a comma or a dot between them
Texts == {Join(ws, sep) : ws \in WordSeqs(MaxWords), sep \in {<<" ">>, <<",">>, <<".">>}}

\* the except clause of line 19 is taken for an item whose parse raised
parse_ok_always(e) == TRUE

parse_ok(e) == e.exc = "none"

\* lines 14 to 15: found = set(re.findall(...)), results = []
FindallStart(text) ==
    /\ fpc = "idle"
    /\ find_text' = text
    /\ matches' = FindAll(text, 1)
    /\ found' = Range(matches')
    /\ results' = <<>>
    /\ fpc' = "loop"
    /\ UNCHANGED <<email_vars, pwned_vars, crawl_vars>>

\* lines 16 to 20: one pass of the for loop; a set is iterated in any order
FindallItem(item) ==
    /\ fpc = "loop"
    /\ item \in found
    /\ found' = found \ {item}
    /\ results' = IF parse_ok(Email_init(item))
                  THEN Append(results, Email_init(item)) ELSE results
    /\ UNCHANGED <<fpc, find_text, matches>>
    /\ UNCHANGED <<email_vars, pwned_vars, crawl_vars>>

\* line 21: return results
FindallReturn ==
    /\ fpc = "loop"
    /\ found = {}
    /\ fpc' = "returned"
    /\ UNCHANGED <<find_text, matches, found, results>>
    /\ UNCHANGED <<email_vars, pwned_vars, crawl_vars>>

FindNext ==
    \/ \E text \in Texts : FindallStart(text)
    \/ \E item \in found : FindallItem(item)
    \/ FindallReturn

\* ------------------------------------------------------------------------
\* Email.pwned
\* ------------------------------------------------------------------------

\* max_attempts = 2
max_attempts_init_three == 3

max_attempts_init == 2

\* if self.pwned_sleep > 80000
full_day_pause == 800000

\* the name TimeoutException is bound nowhere in the module, so the
\* statement "raise TimeoutException" raises NameError
raise_TimeoutException == "NameError"

retry_after_key == <<"r", "e", "t", "r", "y", "-", "a", "f", "t", "e", "r">>

\* header names a server may use
HeaderNames == {retry_after_key,
                <<"R", "e", "t", "r", "y", "-", "A", "f", "t", "e", "r">>,
                <<"d", "a", "t", "e">>}

\* header values a server may send: seconds, or an HTTP date
HeaderValues == {<<"0">>, <<"5">>, <<"8", "0", "0", "0", "0">>,
                 <<"8", "0", "0", "0", "1">>, <<"W", "e", "d">>}

\* check.headers: no header, or one
HeaderSets == {<<>>} \cup {<<[name |-> n, value |-> v]>> : n \in HeaderNames, v \in HeaderValues}

StatusCodes == {200, 404, 429, 503, 500}

TransportErrors == {"ConnectionError", "Timeout"}

NoResp == [status |-> 0, headers |-> <<>>]

DigitSeq == <<"0", "1", "2", "3", "4", "5", "6", "7", "8", "9">>

DigitVal(c) == (CHOOSE i \in 1..10 : DigitSeq[i] = c) - 1

RECURSIVE DecimalVal(_)
DecimalVal(s) == IF s = <<>> THEN 0 ELSE 10 * DecimalVal(Front(s)) + DigitVal(Last(s))

\* float(text) for a header text, in tenths of a second; -1 stands for the
\* ValueError float raises on a text that is no number
float_tenths(text) == IF IsNumeric(text) THEN 10 * DecimalVal(text) ELSE -1

\* {x.lower(): y for x, y in check.headers.items()}.get('retry-after', default)
header_present_exact_case(headers) ==
    \E i \in 1..Len(headers) : headers[i].name = retry_after_key

header_present(headers) ==
    \E i \in 1..Len(headers) : Lower(headers[i].name) = retry_after_key

header_get(headers) ==
    headers[CHOOSE i \in 1..Len(headers) : Lower(headers[i].name) = retry_after_key].value

\* pwned_status_codes.get(check.status_code, (f'unknown status code ...', None))
status_text(code) ==
    CASE code = 200 -> "address breached"
      [] code = 404 -> "address not breached"
      [] code \in {429, 503} -> "rate limit"
      [] OTHER -> "unknown status code"

status_value_default_false(code) ==
    CASE code = 200 -> "True"
      [] OTHER -> "False"

status_value(code) ==
    CASE code = 200 -> "True"
      [] code = 404 -> "False"
      [] OTHER -> "None"

\* what an observer of the responses reads: the retry-after duration of a
\* rate-limited response that carries one (tenths of a second), else old
observed_retry_after(code, headers, old) ==
    LET vals == {headers[i].value : i \in {k \in 1..Len(headers) :
                    /\ Lower(headers[k].name) = retry_after_key
                    /\ IsNumeric(headers[k].value)}}
    IN  IF code \in {429, 503} /\ vals # {}
        THEN 10 * DecimalVal(CHOOSE v \in vals : TRUE) ELSE old

\* e.pwned is read: a new call starts
PwnedStart ==
    /\ ppc \in {"idle", "returned", "raised"}
    /\ calls < MaxCalls
    /\ calls' = calls + 1
    /\ max_attempts' = max_attempts_init
    /\ ppc' = "attempt"
    /\ requests' = 0
    /\ slept' = <<>>
    /\ last_resp' = NoResp
    /\ call_errors' = <<>>
    /\ return_value' = "None"
    /\ pwned_exc' = [kind |-> "none", last_error |-> "None"]
    /\ UNCHANGED <<pwned_sleep, last_error, pwned_status, retry_after>>
    /\ UNCHANGED <<email_vars, crawl_vars, find_vars>>

\* while (max_attempts > 0) is false: raise Exception(... last error ...)
PwnedExhausted ==
    /\ ppc = "attempt"
    /\ ~(max_attempts > 0)
    /\ ppc' = "raised"
    /\ pwned_exc' = [kind |-> "Exception", last_error |-> last_error]
    /\ UNCHANGED <<max_attempts, pwned_sleep, last_error, pwned_status, return_value,
                   calls, requests, slept, last_resp, call_errors, retry_after>>
    /\ UNCHANGED <<email_vars, crawl_vars, find_vars>>

\* requests.get raises: record the error and continue
PwnedTransportError_unrecorded(e) ==
    /\ ppc = "attempt"
    /\ max_attempts > 0
    /\ max_attempts' = max_attempts - 1
    /\ requests' = requests + 1
    /\ call_errors' = Append(call_errors, e)
    /\ last_resp' = NoResp
    /\ ppc' = "attempt"
    /\ UNCHANGED <<pwned_sleep, last_error, pwned_status, return_value, pwned_exc,
                   calls, slept, retry_after>>
    /\ UNCHANGED <<email_vars, crawl_vars, find_vars>>

PwnedTransportError(e) ==
    /\ ppc = "attempt"
    /\ max_attempts > 0
    /\ max_attempts' = max_attempts - 1
    /\ requests' = requests + 1
    /\ last_error' = e
    /\ call_errors' = Append(call_errors, e)
    /\ last_resp' = NoResp
    /\ ppc' = "attempt"
    /\ UNCHANGED <<pwned_sleep, pwned_status, return_value, pwned_exc, calls, slept,
                   retry_after>>
    /\ UNCHANGED <<email_vars, crawl_vars, find_vars>>

\* requests.get returns a response: lines 103 to 130
PwnedResponse(code, headers) ==
    /\ ppc = "attempt"
    /\ max_attempts > 0
    /\ max_attempts' = max_attempts - 1
    /\ requests' = requests + 1
    /\ last_error' = "None"
    /\ last_resp' = [status |-> code, headers |-> headers]
    /\ pwned_status' = status_text(code)
    /\ return_value' = status_value(code)
    /\ retry_after' = observed_retry_after(code, headers, retry_after)
    /\ UNCHANGED <<calls, slept, call_errors>>
    /\ IF status_value(code) # "None"
       THEN /\ ppc' = "sleep_return"
            /\ UNCHANGED <<pwned_sleep, pwned_exc>>
       ELSE IF status_text(code) = "rate limit"
       THEN LET present == header_present(headers)
                new_sleep == IF present THEN float_tenths(header_get(headers))
                             ELSE pwned_sleep
            IN  IF new_sleep < 0
                THEN /\ ppc' = "raised"
                     /\ pwned_exc' = [kind |-> "ValueError", last_error |-> "None"]
                     /\ UNCHANGED pwned_sleep
                ELSE /\ pwned_sleep' = new_sleep
                     /\ IF new_sleep > full_day_pause
                        THEN /\ ppc' = "raised"
                             /\ pwned_exc' = [kind |-> raise_TimeoutException,
                                              last_error |-> "None"]
                        ELSE /\ ppc' = "sleep_cycle"
                             /\ UNCHANGED pwned_exc
       ELSE /\ ppc' = "sleep_cycle"
            /\ UNCHANGED <<pwned_sleep, pwned_exc>>
    /\ UNCHANGED <<email_vars, crawl_vars, find_vars>>

\* return return_value with no sleep before it
PwnedSleepReturn_no_sleep ==
    /\ ppc = "sleep_return"
    /\ ppc' = "returned"
    /\ UNCHANGED <<max_attempts, pwned_sleep, last_error, pwned_status, return_value,
                   pwned_exc, calls, requests, slept, last_resp, call_errors,
                   retry_after>>
    /\ UNCHANGED <<email_vars, crawl_vars, find_vars>>

\* time.sleep(self.pwned_sleep); return return_value
PwnedSleepReturn ==
    /\ ppc = "sleep_return"
    /\ slept' = Append(slept, pwned_sleep)
    /\ ppc' = "returned"
    /\ UNCHANGED <<max_attempts, pwned_sleep, last_error, pwned_status, return_value,
                   pwned_exc, calls, requests, last_resp, call_errors, retry_after>>
    /\ UNCHANGED <<email_vars, crawl_vars, find_vars>>

\* time.sleep(self.pwned_sleep) at the end of the loop body
PwnedSleepCycle ==
    /\ ppc = "sleep_cycle"
    /\ slept' = Append(slept, pwned_sleep)
    /\ ppc' = "attempt"
    /\ UNCHANGED <<max_attempts, pwned_sleep, last_error, pwned_status, return_value,
                   pwned_exc, calls, requests, last_resp, call_errors, retry_after>>
    /\ UNCHANGED <<email_vars, crawl_vars, find_vars>>

\* the steps of a call that is under way
PwnedStep ==
    \/ PwnedExhausted
    \/ \E e \in TransportErrors : PwnedTransportError(e)
    \/ \E code \in StatusCodes, headers \in HeaderSets : PwnedResponse(code, headers)
    \/ PwnedSleepReturn
    \/ PwnedSleepCycle

PwnedNext == PwnedStart \/ PwnedStep

\* ------------------------------------------------------------------------
\* class Domain: the calendar patterns
\* ------------------------------------------------------------------------

LitAt(s, k, lit) == k >= 1 /\ k + Len(lit) - 1 <= Len(s) /\ SubSeq(s, k, k + Len(lit) - 1) = lit

CharAt(s, k, cs) == k >= 1 /\ k <= Len(s) /\ s[k] \in cs

DigitsAt(s, k, n) == \A m \in 0..(n - 1) : CharAt(s, k + m, Digits)

\* (calendar|events) ending just before position j, anywhere to the left:
\* the leading group and the .* of both patterns
KeywordBefore(s, j) ==
    \E i \in 1..Len(s) :
        \/ LitAt(s, i, <<"c", "a", "l", "e", "n", "d", "a", "r">>) /\ i + 8 <= j
        \/ LitAt(s, i, <<"e", "v", "e", "n", "t", "s">>) /\ i + 6 <= j

\* /[0-9]{4}(/|-)[W]?[0-9]{1,2}
YearFirstAt(s, j) ==
    /\ CharAt(s, j, {"/"})
    /\ DigitsAt(s, j + 1, 4)
    /\ CharAt(s, j + 5, {"/", "-"})
    /\ \/ CharAt(s, j + 6, Digits)
       \/ CharAt(s, j + 6, {"w"}) /\ CharAt(s, j + 7, Digits)

\* [0-9]{1,2}(/|-)[0-9]{1,2}(/|-)[0-9]{4}/
YearLastAt(s, j) ==
    \E a \in {1, 2}, b \in {1, 2} :
        /\ DigitsAt(s, j, a)
        /\ CharAt(s, j + a, {"/", "-"})
        /\ DigitsAt(s, j + a + 1, b)
        /\ CharAt(s, j + a + b + 1, {"/", "-"})
        /\ DigitsAt(s, j + a + b + 2, 4)
        /\ CharAt(s, j + a + b + 6, {"/"})

\* (exact_date|time_limit)~[0-9]{8,12}
StampAt(s, j) ==
    /\ \/ LitAt(s, j, <<"e", "x", "a", "c", "t", "_", "d", "a", "t", "e">>)
       \/ LitAt(s, j, <<"t", "i", "m", "e", "_", "l", "i", "m", "i", "t">>)
    /\ CharAt(s, j + 10, {"~"})
    /\ DigitsAt(s, j + 11, 8)

\* Domain.calendar_pat.search(url), re.I
calendar_pat(url) ==
    LET s == Lower(url)
    IN  \E j \in 1..Len(s) :
            /\ KeywordBefore(s, j)
            /\ YearFirstAt(s, j) \/ YearLastAt(s, j) \/ StampAt(s, j)

\* Domain.calendar_action_pat.search(url), re.I
calendar_action_pat(url) ==
    LET s == Lower(url)
    IN  \E j \in 1..Len(s) :
            /\ KeywordBefore(s, j)
            /\ \/ LitAt(s, j, <<"/", "a", "c", "t", "i", "o", "n", "~">>)
               \/ LitAt(s, j, <<"m", "o", "n", "t", "h", "/">>) /\ DigitsAt(s, j + 6, 6)

\* ------------------------------------------------------------------------
\* Domain.__init__: what the network and the pages may hold
\* ------------------------------------------------------------------------

HTTP == <<"h", "t", "t", "p">>
HTTPS == <<"h", "t", "t", "p", "s">>
HostName == <<"h", ".", "i", "o">>
HostNameUpper == <<"H", ".", "i", "o">>
OtherName == <<"e", ".", "i", "o">>

\* values of the argument link
SeedLinks == {<<>>, HostName, HTTP \o COLON \o SEP \o HostName \o SLASH}

\* values of response.url once the seed has been fetched (after redirects)
EffectiveUrls == {HTTP \o COLON \o SEP \o HostName \o SLASH,
                  HTTPS \o COLON \o SEP \o HostNameUpper \o <<"/", "x">>}

\* href values of the anchors of a page; item.get('href') is None for an
\* anchor without href
Hrefs == {None,
          <<"/", "a">>,
          <<"b", ".", "P", "D", "F">>,
          <<"/", "c", "@", "x", "#", "f">>,
          HTTP \o COLON \o SEP \o OtherName \o <<"/", "a">>,
          HTTP \o COLON \o SEP \o HostNameUpper \o <<"/", "a">>,
          SEP \o <<"[">> \o SEP \o HostName,
          SEP \o SEP \o OtherName \o SEP \o HostName,
          <<"/", "e", "v", "e", "n", "t", "s", "/", "2", "0", "2", "4", "-", "1", "1",
            "-", "0", "5", "/">>}

\* status codes of a page response
PageStatusCodes == {200, 404}

\* Content-Type of a page response; None when the header is absent
ContentTypes == {None, <<"t", "e", "x", "t", "/", "h", "t", "m", "l">>,
                 <<"i", "m", "a", "g", "e">>}

\* raw addresses Email.findall may return for a page
PageEmails == {<<"u", "@", "e", "x", ".", "c", "o", "m">>}

\* 'https://' + re.split('//', url)[-1]
secure(url) == HTTPS \o COLON \o SEP \o Last(Split(url, SEP))

\* link_ref.split('//')[-1].split('/')[0]
check_host(href) == Split(Last(Split(href, SEP)), SLASH)[1]

\* lines 271 to 274: the path of the href, cut at '#', '&' and '@'
clean_path(href) == CutAt(CutAt(CutAt(UrlParse(href).path, "#"), "&"), "@")

\* int(0.9 * len(visited))
threshold_whole(n) == n

threshold(n) == (9 * n) \div 10

\* ------------------------------------------------------------------------
\* Domain.__init__: seed resolution (lines 157 to 203)
\* ------------------------------------------------------------------------

\* lines 157 to 164
DomainStart(seed) ==
    /\ pc = "start"
    /\ IF ~Truthy(seed) \/ Len(seed) < 1
       THEN /\ pc' = "raised"
            /\ crawl_exc' = "TypeError"
            /\ link' = seed
            /\ UNCHANGED <<cleanaddress, error_count>>
       ELSE /\ link' = Last(Split(seed, SEP))
            /\ error_count' = 0
            /\ cleanaddress' = HTTP \o COLON \o SEP \o UrlParse(link').path
            /\ pc' = "seed_get"
            /\ UNCHANGED crawl_exc
    /\ UNCHANGED <<host, to_do_list, visited, emails, link_to_do, link_ref, n_links,
                   links_visited>>
    /\ UNCHANGED <<email_vars, pwned_vars, find_vars>>

\* lines 166 to 179: the first fetch; anything but a clean 200 sets failed
SeedGet(outcome) ==
    /\ pc = "seed_get"
    /\ pc' = IF outcome = "ok" THEN "resolve" ELSE "seed_retry"
    /\ UNCHANGED <<link, cleanaddress, host, error_count, to_do_list, visited, emails,
                   link_to_do, link_ref, n_links, links_visited, crawl_exc>>
    /\ UNCHANGED <<email_vars, pwned_vars, find_vars>>

\* lines 182 to 190: the retry with the secure scheme
SeedRetry(ok) ==
    /\ pc = "seed_retry"
    /\ cleanaddress' = secure(cleanaddress)
    /\ IF ok
       THEN /\ pc' = "resolve"
            /\ UNCHANGED <<error_count, crawl_exc>>
       ELSE /\ error_count' = error_count + 1
            /\ pc' = "raised"
            /\ crawl_exc' = "RequestException"
    /\ UNCHANGED <<link, host, to_do_list, visited, emails, link_to_do, link_ref,
                   n_links, links_visited>>
    /\ UNCHANGED <<email_vars, pwned_vars, find_vars>>

\* lines 192 to 206: canonical base and host, then the sets of the loop;
\* socket.gethostbyname and the routing lookups may raise
Resolve(url, lookup_ok) ==
    /\ pc = "resolve"
    /\ IF lookup_ok
       THEN LET parsed_url == UrlParse(url)
                new_clean == parsed_url.scheme \o COLON \o SEP \o parsed_url.netloc \o SLASH
            IN  /\ cleanaddress' = new_clean
                /\ host' = Lower(Split(Last(Split(new_clean, SEP)), SLASH)[1])
                /\ to_do_list' = {new_clean}
                /\ visited' = {}
                /\ emails' = {}
                /\ pc' = "loop"
                /\ UNCHANGED crawl_exc
       ELSE /\ pc' = "raised"
            /\ crawl_exc' = "gaierror"
            /\ UNCHANGED <<cleanaddress, host, to_do_list, visited, emails>>
    /\ UNCHANGED <<link, error_count, link_to_do, link_ref, n_links, links_visited>>
    /\ UNCHANGED <<email_vars, pwned_vars, find_vars>>

\* ------------------------------------------------------------------------
\* Domain.__init__: the traversal loop (lines 207 to 290)
\* ------------------------------------------------------------------------

\* a pop whose link is not put in visited
Pop_unrecorded(l) ==
    /\ pc = "loop"
    /\ l \in to_do_list
    /\ link_to_do' = l
    /\ to_do_list' = to_do_list \ {l}
    /\ pc' = "check"
    /\ UNCHANGED <<link, cleanaddress, host, error_count, visited, emails, link_ref,
                   n_links, links_visited, crawl_exc>>
    /\ UNCHANGED <<email_vars, pwned_vars, find_vars>>

\* lines 207 to 214: to_do_list.pop() returns l
Pop(l) ==
    /\ pc = "loop"
    /\ l \in to_do_list
    /\ link_to_do' = l
    /\ to_do_list' = to_do_list \ {l}
    /\ visited' = visited \cup {l}
    /\ pc' = "check"
    /\ UNCHANGED <<link, cleanaddress, host, error_count, emails, link_ref, n_links,
                   links_visited, crawl_exc>>
    /\ UNCHANGED <<email_vars, pwned_vars, find_vars>>

\* line 207 with an empty to_do_list, then line 290
LoopExit ==
    /\ pc = "loop"
    /\ to_do_list = {}
    /\ links_visited' = Cardinality(visited)
    /\ pc' = "done"
    /\ UNCHANGED <<link, cleanaddress, host, error_count, to_do_list, visited, emails,
                   link_to_do, link_ref, n_links, crawl_exc>>
    /\ UNCHANGED <<email_vars, pwned_vars, find_vars>>

\* lines 216 to 220, and line 290 after the break
BudgetCheck ==
    /\ pc = "check"
    /\ IF error_count > 3 /\ error_count > threshold(Cardinality(visited))
       THEN /\ links_visited' = Cardinality(visited)
            /\ pc' = "done"
       ELSE /\ pc' = "fetch"
            /\ UNCHANGED links_visited
    /\ UNCHANGED <<link, cleanaddress, host, error_count, to_do_list, visited, emails,
                   link_to_do, link_ref, n_links, crawl_exc>>
    /\ UNCHANGED <<email_vars, pwned_vars, find_vars>>

\* link_to_do after lines 222 to 234: retried means the first get raised
fetched_link(retried) == IF retried THEN secure(link_to_do) ELSE link_to_do

\* both gets raise and each is counted as an error
PageTransportFailure_counted_twice ==
    /\ pc = "fetch"
    /\ link_to_do' = fetched_link(TRUE)
    /\ error_count' = error_count + 2
    /\ pc' = "loop"
    /\ UNCHANGED <<link, cleanaddress, host, to_do_list, visited, emails, link_ref,
                   n_links, links_visited, crawl_exc>>
    /\ UNCHANGED <<email_vars, pwned_vars, find_vars>>

\* lines 222 to 234: both gets raise
PageTransportFailure ==
    /\ pc = "fetch"
    /\ link_to_do' = fetched_link(TRUE)
    /\ error_count' = error_count + 1
    /\ pc' = "loop"
    /\ UNCHANGED <<link, cleanaddress, host, to_do_list, visited, emails, link_ref,
                   n_links, links_visited, crawl_exc>>
    /\ UNCHANGED <<email_vars, pwned_vars, find_vars>>

\* lines 236 to 239: a response whose status is not 200
PageBadStatus(retried, code) ==
    /\ pc = "fetch"
    /\ code # 200
    /\ link_to_do' = fetched_link(retried)
    /\ error_count' = error_count + 1
    /\ pc' = "loop"
    /\ UNCHANGED <<link, cleanaddress, host, to_do_list, visited, emails, link_ref,
                   n_links, links_visited, crawl_exc>>
    /\ UNCHANGED <<email_vars, pwned_vars, find_vars>>

\* lines 242 to 243: 'text' not in the Content-Type, 'pdf' when absent
PageNotText(retried, ctype) ==
    /\ pc = "fetch"
    /\ ~Contains(IF ctype = None THEN <<"p", "d", "f">> ELSE ctype,
                 <<"t", "e", "x", "t">>)
    /\ link_to_do' = fetched_link(retried)
    /\ pc' = "loop"
    /\ UNCHANGED <<link, cleanaddress, host, error_count, to_do_list, visited, emails,
                   link_ref, n_links, links_visited, crawl_exc>>
    /\ UNCHANGED <<email_vars, pwned_vars, find_vars>>

\* lines 245 to 250: decode or findall raises
PageDecodeFailure(retried, ctype) ==
    /\ pc = "fetch"
    /\ ctype # None /\ Contains(ctype, <<"t", "e", "x", "t">>)
    /\ link_to_do' = fetched_link(retried)
    /\ error_count' = error_count + 1
    /\ pc' = "loop"
    /\ UNCHANGED <<link, cleanaddress, host, to_do_list, visited, emails, link_ref,
                   n_links, links_visited, crawl_exc>>
    /\ UNCHANGED <<email_vars, pwned_vars, find_vars>>

\* lines 245 to 256: the page is decoded, its emails merged, its anchors found
PageSuccess(retried, ctype, email_list) ==
    /\ pc = "fetch"
    /\ ctype # None /\ Contains(ctype, <<"t", "e", "x", "t">>)
    /\ link_to_do' = fetched_link(retried)
    /\ emails' = emails \cup email_list
    /\ n_links' = 0
    /\ pc' = "links"
    /\ UNCHANGED <<link, cleanaddress, host, error_count, to_do_list, visited, link_ref,
                   links_visited, crawl_exc>>
    /\ UNCHANGED <<email_vars, pwned_vars, find_vars>>

\* line 286: if new_link not in visited
is_new_always(url) == TRUE

is_new(url) == url \notin visited

\* lines 286 to 288 alone: no test of the calendar patterns
link_of_joined_any(joined) ==
    IF joined.error THEN [kind |-> "raise", url |-> <<>>]
    ELSE IF is_new(joined.url) THEN [kind |-> "add", url |-> joined.url]
    ELSE [kind |-> "skip", url |-> <<>>]

\* lines 282 to 288 on the result of urljoin
link_of_joined(joined) ==
    IF joined.error THEN [kind |-> "raise", url |-> <<>>]
    ELSE IF calendar_pat(joined.url) \/ calendar_action_pat(joined.url)
         THEN [kind |-> "skip", url |-> <<>>]
    ELSE IF is_new(joined.url) THEN [kind |-> "add", url |-> joined.url]
    ELSE [kind |-> "skip", url |-> <<>>]

\* lines 275 to 279 on the cleaned path
link_of_path(parsed_url_path) ==
    IF Lower(Last(Split(parsed_url_path, DOT))) \in skip_types
    THEN [kind |-> "skip", url |-> <<>>]
    ELSE link_of_joined(UrlJoin(cleanaddress, parsed_url_path))

\* the link lines 258 to 288 make of an href: kind is "skip", "raise" or "add"
new_link(href) ==
    IF ~Truthy(href) THEN [kind |-> "skip", url |-> <<>>]
    ELSE IF Contains(href, SEP) /\ Lower(check_host(href)) # host
         THEN [kind |-> "skip", url |-> <<>>]
    ELSE IF UrlParse(href).error THEN [kind |-> "raise", url |-> <<>>]
    ELSE link_of_path(clean_path(href))

\* what the pass does with that link
take_link(r) ==
    CASE r.kind = "add" ->
            /\ to_do_list' = to_do_list \cup {r.url}
            /\ UNCHANGED <<pc, crawl_exc>>
      [] r.kind = "raise" ->
            /\ pc' = "raised"
            /\ crawl_exc' = "ValueError"
            /\ UNCHANGED to_do_list
      [] OTHER -> UNCHANGED <<to_do_list, pc, crawl_exc>>

\* lines 257 to 288: one pass of the for loop, on the anchor with this href
ProcessHref(href) ==
    /\ pc = "links"
    /\ link_ref' = href
    /\ n_links' = n_links + 1
    /\ take_link(new_link(href))
    /\ UNCHANGED <<link, cleanaddress, host, error_count, visited, emails, link_to_do,
                   links_visited>>
    /\ UNCHANGED <<email_vars, pwned_vars, find_vars>>

\* the for loop has no anchor left
LinksDone ==
    /\ pc = "links"
    /\ pc' = "loop"
    /\ UNCHANGED <<link, cleanaddress, host, error_count, to_do_list, visited, emails,
                   link_to_do, link_ref, n_links, links_visited, crawl_exc>>
    /\ UNCHANGED <<email_vars, pwned_vars, find_vars>>

SeedStep ==
    \/ \E seed \in SeedLinks : DomainStart(seed)
    \/ \E outcome \in {"ok", "FailureMode", "bad status", "exception"} : SeedGet(outcome)
    \/ \E ok \in BOOLEAN : SeedRetry(ok)
    \/ \E url \in EffectiveUrls, lookup_ok \in BOOLEAN : Resolve(url, lookup_ok)

PageStep ==
    \/ BudgetCheck
    \/ PageTransportFailure
    \/ \E retried \in BOOLEAN, code \in PageStatusCodes : PageBadStatus(retried, code)
    \/ \E retried \in BOOLEAN, ctype \in ContentTypes : PageNotText(retried, ctype)
    \/ \E retried \in BOOLEAN, ctype \in ContentTypes : PageDecodeFailure(retried, ctype)
    \/ \E retried \in BOOLEAN, ctype \in ContentTypes, email_list \in SUBSET PageEmails :
            PageSuccess(retried, ctype, email_list)

CrawlStep ==
    \/ SeedStep
    \/ \E l \in to_do_list : Pop(l)
    \/ LoopExit
    \/ PageStep
    \/ n_links < MaxLinks /\ \E href \in Hrefs : ProcessHref(href)
    \/ LinksDone

Next == CrawlStep

\* ------------------------------------------------------------------------
\* Initial states and specifications
\* ------------------------------------------------------------------------

EmailIdle == email = Unborn /\ tld_exc = "none" /\ pwned_sleep = 0

EmailBuilt ==
    /\ email = Email_init(<<"u", "@", "e", "x", ".", "c", "o", "m">>)
    /\ tld_exc = "none"
    /\ pwned_sleep = pwned_sleep_init

PwnedIdle ==
    /\ ppc = "idle"
    /\ max_attempts = 0
    /\ last_error = "unset"
    /\ pwned_status = "unset"
    /\ return_value = "None"
    /\ pwned_exc = [kind |-> "none", last_error |-> "None"]
    /\ calls = 0
    /\ requests = 0
    /\ slept = <<>>
    /\ last_resp = NoResp
    /\ call_errors = <<>>
    /\ retry_after = -1

CrawlIdle ==
    /\ pc = "start"
    /\ link = None
    /\ cleanaddress = None
    /\ host = None
    /\ error_count = 0
    /\ to_do_list = {}
    /\ visited = {}
    /\ emails = {}
    /\ link_to_do = None
    /\ link_ref = None
    /\ n_links = 0
    /\ links_visited = -1
    /\ crawl_exc = "none"

FindIdle ==
    /\ fpc = "idle"
    /\ find_text = None
    /\ matches = <<>>
    /\ found = {}
    /\ results = <<>>

\* a crawl: Domain(link, routing)
Init == EmailIdle /\ PwnedIdle /\ CrawlIdle /\ FindIdle

Spec == Init /\ [][Next]_vars

\* the steps of the constructor follow each other without a scheduler
FairSpec == Spec /\ WF_vars(Next)

\* the k-th anchor of a page of the site with many pages: '/' and k letters
BudgetHref(k) == SLASH \o [i \in 1..k |-> "a"]

\* the k shortest links of a set
Nearest(S, k) == {u \in S : Cardinality({v \in S : Len(v) < Len(u)}) < k}

\* anchors not yet processed on the current page of the site with many pages:
\* its first page lists BudgetHref(1) to BudgetHref(BudgetFanout) in this
\* order, its other pages have no anchor; every page that decodes carries
\* the addresses of PageEmails
anchors_left == IF Cardinality(visited) = 1 THEN BudgetFanout - n_links ELSE 0

\* the link that site is crawled from, and response.url of its first page
BudgetSeed == HostName

BudgetRoot == HTTP \o COLON \o SEP \o HostName \o SLASH

\* a crawl of that site; pop returns one of the PopWidth shortest pending links
BudgetStep ==
    \/ DomainStart(BudgetSeed)
    \/ \E outcome \in {"ok", "FailureMode", "bad status", "exception"} : SeedGet(outcome)
    \/ \E ok \in BOOLEAN : SeedRetry(ok)
    \/ \E lookup_ok \in BOOLEAN : Resolve(BudgetRoot, lookup_ok)
    \/ \E l \in Nearest(to_do_list, PopWidth) : Pop(l)
    \/ LoopExit
    \/ BudgetCheck
    \/ PageTransportFailure
    \/ \E retried \in BOOLEAN, code \in PageStatusCodes : PageBadStatus(retried, code)
    \/ \E retried \in BOOLEAN, ctype \in ContentTypes : PageNotText(retried, ctype)
    \/ \E retried \in BOOLEAN, ctype \in ContentTypes : PageDecodeFailure(retried, ctype)
    \/ \E retried \in BOOLEAN, ctype \in ContentTypes :
            PageSuccess(retried, ctype, PageEmails)
    \/ anchors_left > 0 /\ ProcessHref(BudgetHref(n_links + 1))
    \/ anchors_left = 0 /\ LinksDone

BudgetNext == BudgetStep

BudgetSpec == Init /\ [][BudgetNext]_vars

\* one call of Email.findall
FindSpec == Init /\ [][FindNext]_vars

\* one Email object: construction, then assignments to tld
EmailSpec == Init /\ [][EmailNext]_vars

\* calls of pwned on one Email object
PwnedInit == EmailBuilt /\ PwnedIdle /\ CrawlIdle /\ FindIdle

PwnedSpec == PwnedInit /\ [][PwnedNext]_vars

\* a call that has started runs to its end; the caller may never call again
PwnedFairSpec == PwnedSpec /\ WF_vars(PwnedStep)

\* ------------------------------------------------------------------------
\* Properties
\* ------------------------------------------------------------------------

\* C1: once seed resolution has succeeded, no page aborts the crawl: the
\* constructor never ends with an exception, whatever the pages hold.
C1_NoPageAbortsCrawl == host # None => pc # "raised"

\* C2: in every state of the traversal loop no URL is both in visited and in
\* to_do_list.
C2_VisitedPendingDisjoint == visited \cap to_do_list = {}

\* an anchor whose link is already visited has been processed while other
\* links are pending
C2_Witness ==
    /\ pc = "links"
    /\ n_links > 0
    /\ to_do_list # {}
    /\ Truthy(link_ref)
    /\ ~UrlParse(link_ref).error
    /\ UrlJoin(cleanaddress, clean_path(link_ref)).url \in visited

\* C3: the error-budget check, made after the popped link is in visited,
\* leaves the loop without fetching that link and with the emails collected
\* so far when error_count > 3 and error_count > floor(0.9 * |visited|);
\* otherwise it goes on to fetch the link.
C3_BudgetCheckDecides ==
    [][pc = "check" =>
          IF error_count > 3 /\ error_count > (9 * Cardinality(visited)) \div 10
          THEN /\ pc' = "done"
               /\ emails' = emails
               /\ links_visited' = Cardinality(visited)
               /\ crawl_exc' = "none"
               /\ link_to_do' = link_to_do
          ELSE pc' = "fetch"]_vars

\* the loop was left by the break: links are still pending, and the
\* addresses collected before are kept
C3_Witness == pc = "done" /\ to_do_list # {} /\ error_count > 3 /\ emails # {}

\* C4: host never changes once resolved, every URL added to to_do_list has
\* that host, and an anchor whose href holds '//' followed by another host
\* adds nothing.
C4_ScopeContainment ==
    [][/\ host # None => host' = host
       /\ pc = "links" =>
            \A u \in to_do_list' \ to_do_list :
                /\ Lower(UrlParse(u).netloc) = host
                /\ Contains(link_ref', SEP) => Lower(check_host(link_ref')) = host]_vars

\* C5: a call of pwned makes at most 2 requests and ends, after at most 2
\* attempts, with True or False or with an exception.
C5_TwoAttempts ==
    /\ [](/\ requests <= 2
          /\ ppc = "returned" => return_value \in {"True", "False"}
          /\ ppc = "raised" => pwned_exc.kind # "none")
    /\ (ppc \in {"attempt", "sleep_return", "sleep_cycle"}
            ~> ppc \in {"returned", "raised"})

\* both attempts were used and the call failed
C5_Witness == ppc = "raised" /\ pwned_exc.kind = "Exception" /\ requests = 2

\* C6: status 200 ends the call with True, status 404 with False, and no
\* other status ends it with a result.
C6_StatusMapping ==
    /\ last_resp.status = 200 =>
            ppc \in {"sleep_return", "returned"} /\ return_value = "True"
    /\ last_resp.status = 404 =>
            ppc \in {"sleep_return", "returned"} /\ return_value = "False"
    /\ last_resp.status \notin {200, 404} => ppc \notin {"sleep_return", "returned"}

\* a first response that was not terminal, then a 200 and the result
C6_Witness == ppc = "returned" /\ Len(slept) = 2 /\ last_resp.status = 200

\* C7: after a rate-limited response carrying a retry-after duration d of at
\* most 80000 s, d is the backoff: the next attempt starts only after a sleep
\* of d, a result is returned only after a sleep of d, and d stays the
\* backoff, also in later calls, until another rate-limited response.
C7_RetryAfterBackoff ==
    (retry_after >= 0 /\ retry_after <= 800000) =>
        /\ pwned_sleep = retry_after
        /\ (ppc = "attempt" /\ last_resp.status \in {429, 503}
                /\ \E i \in 1..Len(last_resp.headers) :
                        Lower(last_resp.headers[i].name) = retry_after_key)
            => (slept # <<>> /\ Last(slept) = retry_after)
        /\ ppc = "returned" => (slept # <<>> /\ Last(slept) = retry_after)

\* 429 with Retry-After: 5, then a 200: the result comes after two sleeps of 5 s
C7_Witness ==
    /\ ppc = "returned"
    /\ retry_after = 50
    /\ slept = <<50, 50>>
    /\ return_value = "True"

\* C8 (as stated): the exhausted error carries the last transport error of
\* the call whenever an attempt of the call failed at transport level.
C8_CarriesLastTransportError ==
    (ppc = "raised" /\ pwned_exc.kind = "Exception" /\ call_errors # <<>>)
        => pwned_exc.last_error = Last(call_errors)

\* C8 (amended): the exhausted error is raised after 2 requests and carries
\* the transport error of the last attempt when that attempt failed at
\* transport level, and no error when the last attempt got a response.
C8_CarriesErrorOfLastAttempt ==
    (ppc = "raised" /\ pwned_exc.kind = "Exception") =>
        /\ requests = 2
        /\ pwned_exc.last_error =
              IF last_resp = NoResp THEN Last(call_errors) ELSE "None"

\* attempt 1 fails at transport level, attempt 2 is rate-limited
C8_Witness ==
    /\ ppc = "raised"
    /\ pwned_exc.kind = "Exception"
    /\ Len(call_errors) = 1
    /\ last_resp.status = 429
    /\ pwned_exc.last_error = "None"

\* C9: a rate-limited response with a retry-after duration above 80000 s
\* makes the call fail at once with the timeout error.
C9_TimeoutError ==
    (/\ last_resp.status \in {429, 503}
     /\ \E i \in 1..Len(last_resp.headers) :
            /\ Lower(last_resp.headers[i].name) = retry_after_key
            /\ IsNumeric(last_resp.headers[i].value)
            /\ DecimalVal(last_resp.headers[i].value) > 80000)
        => ppc = "raised" /\ pwned_exc.kind = "TimeoutException"

\* C10: the tld of an Email object, if present, is lower-cased and in the
\* allow-set, after construction and after any direct assignments.
C10_TldInAllowSet ==
    (email.exc = "none" /\ Truthy(email.tld)) =>
        email.tld = Lower(email.tld) /\ email.tld \in email_tlds

\* C11: when the constructor accepts a raw address, it also accepts the
\* string form of the new object and parses it to the same name, domain,
\* tld and country.
C11_RoundTrip ==
    [][(email.exc = "unborn" /\ email'.exc = "none") =>
            LET again == Email_init(Email_str(email'))
            IN  /\ again.exc = "none"
                /\ again.name = email'.name
                /\ again.domain = email'.domain
                /\ again.tld = email'.tld
                /\ again.country = email'.country]_vars

\* a freshly built object whose string form differs from the raw address,
\* with a tld and a country
C11_Witness ==
    /\ email.exc = "none"
    /\ email = Email_init(email.email_addr)
    /\ Email_str(email) # email.email_addr
    /\ Truthy(email.tld)
    /\ Truthy(email.country)

\* C12: a raw address with one '@' whose domain has at least three labels,
\* is not all numeric, ends in a label of two characters and has before it
\* a label that starts with a known tld is accepted with country = the
\* last label lower-cased, tld = the matched tld, domain = the labels
\* before these two joined with '.', and name = the text before the '@'.
C12_CountryAndTld ==
    [][(email.exc = "unborn" /\ email'.exc # "unborn") =>
         LET parts == Split(email'.email_addr, AT)
             labels == Split(parts[2], DOT)
             n == Len(labels)
         IN  (/\ Len(parts) = 2
              /\ n >= 3
              /\ \E i \in 1..n : ~IsNumeric(labels[i])
              /\ Len(labels[n]) = 2
              /\ \E t \in email_tlds : StartsWith(Lower(labels[n - 1]), t))
             => /\ email'.exc = "none"
                /\ email'.name = parts[1]
                /\ email'.country = Lower(labels[n])
                /\ email'.tld \in email_tlds
                /\ StartsWith(Lower(labels[n - 1]), email'.tld)
                /\ email'.domain = Join(SubSeq(labels, 1, n - 2), DOT)]_vars

\* 'user@sub.example.gov.uk' has been parsed to user, sub.example, gov, uk
C12_Witness ==
    /\ email.email_addr = ExampleAddr
    /\ email.name = <<"u", "s", "e", "r">>
    /\ email.domain = <<"s", "u", "b", ".", "e", "x", "a", "m", "p", "l", "e">>
    /\ email.tld = <<"g", "o", "v">>
    /\ email.country = <<"u", "k">>

\* C13: when findall returns, results holds exactly one object for each
\* distinct match of the pattern that the constructor accepts and none for
\* a match it rejects, however often a match occurs in the text; every
\* object of results is an accepted match of the text.
C13_FindallDistinctParsed ==
    fpc = "returned" =>
        /\ \A m \in Range(matches) :
              Cardinality({i \in 1..Len(results) : results[i].email_addr = m})
                  = IF Email_init(m).exc = "none" THEN 1 ELSE 0
        /\ \A i \in 1..Len(results) :
              /\ results[i].email_addr \in Range(matches)
              /\ results[i] = Email_init(results[i].email_addr)

\* the text held an accepted address twice and a rejected one
C13_Witness ==
    /\ fpc = "returned"
    /\ \E i, j \in 1..Len(matches) : i # j /\ matches[i] = matches[j]
                                      /\ Email_init(matches[i]).exc = "none"
    /\ \E i \in 1..Len(matches) : Email_init(matches[i]).exc # "none"
    /\ Len(results) = 1

\* C14: when an attempt of a call has failed at transport level and another
\* attempt remains, the error is recorded and the call has slept the
\* current backoff before that next attempt starts.
C14_SleepAfterTransportError ==
    (ppc = "attempt" /\ max_attempts > 0 /\ requests > 0 /\ last_resp = NoResp) =>
        /\ last_error = Last(call_errors)
        /\ Len(slept) = requests
        /\ Last(slept) = pwned_sleep

\* C15: a call that has returned True or False has slept once for each
\* response it received, the last time after the terminal response and for
\* the backoff current then; before that sleep the terminal response is the
\* only one not yet followed by a sleep.
C15_SleepBeforeReturn ==
    /\ ppc = "returned" =>
          /\ return_value \in {"True", "False"}
          /\ Len(slept) = requests - Len(call_errors)
          /\ slept # <<>>
          /\ Last(slept) = pwned_sleep
    /\ ppc = "sleep_return" => Len(slept) = requests - Len(call_errors) - 1

\* a transport error, then a 404: the call returned False after one sleep
C15_Witness ==
    /\ ppc = "returned"
    /\ return_value = "False"
    /\ Len(call_errors) = 1
    /\ slept = <<pwned_sleep>>

\* C16: no call on the address ever sleeps for more than 80000 s (800000
\* tenths), whatever the calls before it have observed.
C16_NoFullDaySleep == \A i \in 1..Len(slept) : slept[i] <= 800000

\* C17: a link is popped only if it was never popped before: the popped
\* link is not in visited and enters it, visited never loses a link, and no
\* link of visited is added to to_do_list, whatever became of its fetch.
C17_PoppedAtMostOnce ==
    [][/\ (pc = "loop" /\ pc' = "check") =>
             (link_to_do' \notin visited /\ link_to_do' \in visited')
       /\ pc # "resolve" => visited \subseteq visited'
       /\ (to_do_list' \ to_do_list) \cap visited' = {}]_vars

\* three links visited, the fetch of one failed; the page being read now
\* has an anchor to the failed one, and nothing is pending
C17_Witness ==
    /\ pc = "links"
    /\ n_links > 0
    /\ to_do_list = {}
    /\ Cardinality(visited) = 3
    /\ error_count = 1
    /\ Truthy(link_ref)
    /\ ~UrlParse(link_ref).error
    /\ UrlJoin(cleanaddress, clean_path(link_ref)).url \in visited \ {cleanaddress}
    /\ Last(Split(UrlJoin(cleanaddress, clean_path(link_ref)).url, SEP))
            # Last(Split(link_to_do, SEP))

\* C18: no link of to_do_list other than the canonical base matches a
\* calendar pattern, and a link is added only for an href whose cleaned
\* path does not end in an extension of skip_types, as the join of the
\* canonical base and that path.
C18_ContentFilter ==
    [][/\ \A u \in to_do_list' \ {cleanaddress'} :
             ~calendar_pat(u) /\ ~calendar_action_pat(u)
       /\ pc = "links" =>
             \A u \in to_do_list' \ to_do_list :
                /\ Lower(Last(Split(clean_path(link_ref'), DOT))) \notin skip_types
                /\ u = UrlJoin(cleanaddress, clean_path(link_ref')).url]_vars

\* the anchor '/events/2024-11-05/' has been processed after another anchor
\* of the page was added, and its link is nowhere
C18_Witness ==
    /\ pc = "links"
    /\ n_links = 2
    /\ link_ref = <<"/", "e", "v", "e", "n", "t", "s", "/", "2", "0", "2", "4", "-",
                    "1", "1", "-", "0", "5", "/">>
    /\ to_do_list # {}
    /\ UrlJoin(cleanaddress, link_ref).url \notin to_do_list \cup visited

\* C19: a direct assignment to tld of a non-empty value that is no member
\* of the allow-set raises the TypeError of the setter and leaves every
\* field of the object, the tld included, as it was.
C19_InvalidTldRejected ==
    [][email.exc = "none" =>
         \A value \in TldValues :
            (Truthy(value) /\ value \notin email_tlds /\ AssignTld(value))
                => (tld_exc' = "TypeError" /\ email' = email)]_vars

\* C20: at every error-budget check error_count is at most |visited| - 1,
\* and a check made while |visited| <= 10 goes on to the fetch.
C20_ErrorsBelowVisited ==
    [][pc = "check" =>
          /\ error_count <= Cardinality(visited) - 1
          /\ Cardinality(visited) <= 10 => pc' = "fetch"]_vars

\* a check with 10 links visited, 8 of them failed
C20_Witness ==
    /\ pc = "check"
    /\ Cardinality(visited) = 10
    /\ error_count = 8

====
